---- MODULE Spec2Model ----
(***************************************************************************)
(* Model of @thizjs/express: the middleware catalog (MiddlewareLoader) and *)
(* the two directory walkers (registerRoutes, inspectRoutes).              *)
(*                                                                         *)
(* JavaScript strings are sequences of one-character strings, so that the  *)
(* regular expressions of the source are modelled by what they do to the   *)
(* characters.                                                             *)
(***************************************************************************)
EXTENDS Naturals, Sequences, FiniteSets, TLC

(***************************************************************************)
(* Bounds of the model.                                                    *)
(***************************************************************************)
MaxFiles == 3
MaxMwFiles == 3
MaxDeclared == 2
MaxLoadCalls == 2
MaxCalls == 2

(***************************************************************************)
(* Characters and strings.                                                 *)
(***************************************************************************)
LowerSeq == <<"a","b","c","d","e","f","g","h","i","j","k","l","m",
              "n","o","p","q","r","s","t","u","v","w","x","y","z">>
UpperSeq == <<"A","B","C","D","E","F","G","H","I","J","K","L","M",
              "N","O","P","Q","R","S","T","U","V","W","X","Y","Z">>
Digits == {"0","1","2","3","4","5","6","7","8","9"}

Range(s) == {s[i] : i \in DOMAIN s}

\* \w of a JavaScript regular expression: [A-Za-z0-9_]
IsWordChar(c) == c \in Range(LowerSeq) \cup Range(UpperSeq) \cup Digits \cup {"_"}

\* String.prototype.toLowerCase, on one character and on a string
toLowerChar(c) ==
  IF c \in Range(UpperSeq)
  THEN LowerSeq[CHOOSE i \in DOMAIN UpperSeq : UpperSeq[i] = c]
  ELSE c

toLowerCase(s) == [i \in DOMAIN s |-> toLowerChar(s[i])]

\* String.prototype.toUpperCase
toUpperChar(c) ==
  IF c \in Range(LowerSeq)
  THEN UpperSeq[CHOOSE i \in DOMAIN LowerSeq : LowerSeq[i] = c]
  ELSE c

toUpperCase(s) == [i \in DOMAIN s |-> toUpperChar(s[i])]

\* the characters of s from position i on
From(s, i) == SubSeq(s, i, Len(s))

\* s.endsWith(t)
EndsWith(s, t) == Len(s) >= Len(t) /\ From(s, Len(s) - Len(t) + 1) = t

\* the first position at which t occurs in s, 0 when it does not occur
IndexOf(s, t) ==
  LET hits == {i \in 1..(Len(s) + 1 - Len(t)) : SubSeq(s, i, i + Len(t) - 1) = t}
  IN IF hits = {} THEN 0 ELSE CHOOSE i \in hits : \A j \in hits : i <= j

\* String.prototype.localeCompare on the characters the names and paths of the
\* model are made of: punctuation before digits before letters, and ":" before "/";
\* on strings of these characters it is the lexicographic comparison by this rank
CollationSeq == <<"_", "-", ":", "!", ".", "[", "]", "/",
                  "0","1","2","3","4","5","6","7","8","9"
                >> \o LowerSeq

CharRank(c) ==
  IF c \in Range(CollationSeq)
  THEN CHOOSE i \in DOMAIN CollationSeq : CollationSeq[i] = c
  ELSE 0

RECURSIVE localeCompareLess(_, _)
localeCompareLess(a, b) ==
  IF b = <<>> THEN FALSE
  ELSE IF a = <<>> THEN TRUE
  ELSE IF CharRank(a[1]) # CharRank(b[1]) THEN CharRank(a[1]) < CharRank(b[1])
  ELSE localeCompareLess(Tail(a), Tail(b))

(***************************************************************************)
(* String constants of the source.                                         *)
(***************************************************************************)
SkipMarker == <<"!","_","g","l","o","b","a","l">>
GlobalInfix == <<".","_","g","l","o","b","a","l",".">>
GlobalSuffix == <<".","_","g","l","o","b","a","l">>
DotJs == <<".","j","s">>
DotTs == <<".","t","s">>
ParamToken == <<":","p","a","r","a","m">>
Colon == <<":">>
Slash == <<"/">>

(***************************************************************************)
(* The path rules of the walkers.                                          *)
(***************************************************************************)
\* prefix.replace(/\/+$/, "")
RECURSIVE normalizedPrefix(_)
normalizedPrefix(prefix) ==
  IF prefix # <<>> /\ prefix[Len(prefix)] = "/"
  THEN normalizedPrefix(SubSeq(prefix, 1, Len(prefix) - 1))
  ELSE prefix

\* p.replace(/:\w+/g, ":param")
RECURSIVE SkipWord(_)
SkipWord(s) == IF s # <<>> /\ IsWordChar(s[1]) THEN SkipWord(Tail(s)) ELSE s

\* mutant: parameter names are not collapsed to one wildcard
normalizeDynamic_identity(p) == p

RECURSIVE normalizeDynamic(_)
normalizeDynamic(p) ==
  IF p = <<>> THEN <<>>
  ELSE IF p[1] = ":" /\ Len(p) >= 2 /\ IsWordChar(p[2])
       THEN ParamToken \o normalizeDynamic(SkipWord(Tail(p)))
       ELSE <<p[1]>> \o normalizeDynamic(Tail(p))

\* prefixPath.replace(/\[(.+?)\]/g, ":$1"): the lazy group takes at least one
\* character and ends at the first "]" after it
RECURSIVE processedPath(_)
processedPath(s) ==
  IF s = <<>> THEN <<>>
  ELSE IF s[1] = "[" /\ \E j \in 3..Len(s) : s[j] = "]"
       THEN LET j == CHOOSE j \in 3..Len(s) :
                       s[j] = "]" /\ \A k \in 3..(j - 1) : s[k] # "]"
            IN Colon \o SubSeq(s, 2, j - 1) \o processedPath(From(s, j + 1))
       ELSE <<s[1]>> \o processedPath(Tail(s))

\* .replace(/\\/g, "/")
backslashToSlash(s) == [i \in DOMAIN s |-> IF s[i] = "\\" THEN "/" ELSE s[i]]

\* .replace(/\/+/g, "/")
RECURSIVE collapseSlashes(_)
collapseSlashes(s) ==
  IF s = <<>> THEN <<>>
  ELSE IF s[1] = "/" /\ Len(s) >= 2 /\ s[2] = "/" THEN collapseSlashes(Tail(s))
  ELSE <<s[1]>> \o collapseSlashes(Tail(s))

\* the prefixPath the recursion of walk accumulates: `${prefixPath}/${item.name}`
RECURSIVE prefixPathOf(_)
prefixPathOf(dir) ==
  IF dir = <<>> THEN <<>>
  ELSE prefixPathOf(SubSeq(dir, 1, Len(dir) - 1)) \o Slash \o dir[Len(dir)]

\* routePath of a file whose parent directory has the accumulated prefixPath
routePathOf(prefix, prefixPath) ==
  collapseSlashes(backslashToSlash(normalizedPrefix(prefix) \o processedPath(prefixPath)))

\* path.extname of a path whose last component is name
extname(name) ==
  LET dots == {i \in 2..Len(name) : name[i] = "."}
  IN IF dots = {} THEN <<>>
     ELSE From(name, CHOOSE i \in dots : \A j \in dots : j <= i)

\* item.name.match(/^(GET|POST|PUT|PATCH|DELETE)\.(js|ts)$/i)
MethodNames == {<<"g","e","t">>, <<"p","o","s","t">>, <<"p","u","t">>,
                <<"p","a","t","c","h">>, <<"d","e","l","e","t","e">>}

\* mutant: the i flag of the pattern is left out
methodMatch_caseSensitive(name) ==
  LET dot == IndexOf(name, <<".">>)
  IN /\ dot > 1
     /\ toLowerCase(SubSeq(name, 1, dot - 1)) \in MethodNames
     /\ toUpperCase(SubSeq(name, 1, dot - 1)) = SubSeq(name, 1, dot - 1)
     /\ From(name, dot + 1) \in {<<"j","s">>, <<"t","s">>}

methodMatch(name) ==
  LET dot == IndexOf(name, <<".">>)
  IN /\ dot > 1
     /\ toLowerCase(SubSeq(name, 1, dot - 1)) \in MethodNames
     /\ toLowerCase(From(name, dot + 1)) \in {<<"j","s">>, <<"t","s">>}

\* methodMatch[1].toLowerCase() and methodMatch[2]
methodOf(name) == toLowerCase(SubSeq(name, 1, IndexOf(name, <<".">>) - 1))
fileExtOf(name) == From(name, IndexOf(name, <<".">>) + 1)

(***************************************************************************)
(* JavaScript values, as far as the code looks at them: typeof, truthiness,*)
(* Array.isArray and the elements of an array.                             *)
(***************************************************************************)
JsValue(type, truthy, isArray, items) ==
  [type |-> type, truthy |-> truthy, isArray |-> isArray, items |-> items]

JsUndefined == JsValue("undefined", FALSE, FALSE, <<>>)
JsNull == JsValue("object", FALSE, FALSE, <<>>)
JsObject == JsValue("object", TRUE, FALSE, <<>>)
JsTrue == JsValue("boolean", TRUE, FALSE, <<>>)
JsFalse == JsValue("boolean", FALSE, FALSE, <<>>)
JsNumber == JsValue("number", TRUE, FALSE, <<>>)
JsZero == JsValue("number", FALSE, FALSE, <<>>)
JsString == JsValue("string", TRUE, FALSE, <<>>)
JsEmptyString == JsValue("string", FALSE, FALSE, <<>>)
JsArray(items) == JsValue("object", TRUE, TRUE, items)

(***************************************************************************)
(* Errors: what was thrown, the files and names its message carries.       *)
(***************************************************************************)
Err(kind, files, name, available, type) ==
  [kind |-> kind, files |-> files, name |-> name, available |-> available, type |-> type]

NoError == Err("none", <<>>, <<>>, {}, "")

\* a path: the folder names below the scanned directory and the file name
Path(dir, name) == [dir |-> dir, name |-> name]

(***************************************************************************)
(* Maps (the Map objects of the source) as functions.                      *)
(***************************************************************************)
EmptyMap == [k \in {} |-> k]
MapHas(m, k) == k \in DOMAIN m
MapSet(m, k, v) == [x \in (DOMAIN m) \cup {k} |-> IF x = k THEN v ELSE m[x]]

(***************************************************************************)
(* MiddlewareLoader.                                                       *)
(***************************************************************************)
\* constructor
NewLoader == [middlewareCache |-> EmptyMap, globalMiddlewares |-> <<>>, loaded |-> FALSE]

\* const isGlobal = file.includes("._global.")
isGlobal(file) == IndexOf(file, GlobalInfix) > 0

\* file.replace(/\._global/, "").replace(/\.(js|ts)$/, "")
middlewareName(file) ==
  LET g == IndexOf(file, GlobalSuffix)
      a == IF g = 0 THEN file
           ELSE SubSeq(file, 1, g - 1) \o From(file, g + Len(GlobalSuffix))
  IN IF EndsWith(a, DotJs) \/ EndsWith(a, DotTs)
     THEN SubSeq(a, 1, Len(a) - 3)
     ELSE a

\* /\.(js|ts)$/.test(file)
isMiddlewareFile(file) == EndsWith(file, DotJs) \/ EndsWith(file, DotTs)

\* importMiddleware: a .ts file needs tsx, and every failure of the .ts branch
\* is thrown as the "Cannot load TypeScript middleware" error
importMiddleware(f, tsx) ==
  IF extname(f.file) = DotTs
  THEN IF tsx /\ f.loads THEN NoError
       ELSE Err("UnsupportedSourceLanguage", <<f.file>>, <<>>, {}, "")
  ELSE IF f.loads THEN NoError
       ELSE Err("ImportFailed", <<f.file>>, <<>>, {}, "")

\* the callable a middleware module yields: module.default || module.middleware
middlewareExport(f) == IF f.default.truthy THEN "default" ELSE "middleware"
middlewareValue(f) == IF f.default.truthy THEN f.default ELSE f.middleware
Callable(file, export) == [file |-> file, export |-> export]

\* Array.prototype.sort with (a, b) => a.name.localeCompare(b.name): stable
RECURSIVE sortedInsert(_, _)
sortedInsert(sorted, x) ==
  IF sorted = <<>> THEN <<x>>
  ELSE IF localeCompareLess(x.name, sorted[1].name) THEN <<x>> \o sorted
  ELSE <<sorted[1]>> \o sortedInsert(Tail(sorted), x)

\* mutant: the sort after the load pass is left out
sortGlobals_unsorted(s) == s

RECURSIVE sortGlobals(_)
sortGlobals(s) ==
  IF s = <<>> THEN <<>>
  ELSE sortedInsert(sortGlobals(SubSeq(s, 1, Len(s) - 1)), s[Len(s)])

\* mutant: a name already in the catalog is not overwritten
loadMiddlewareFile_firstWins(L, f, tsx) ==
  IF f.isDirectory \/ ~isMiddlewareFile(f.file)
  THEN [loader |-> L, error |-> NoError, imported |-> <<>>]
  ELSE LET imp == importMiddleware(f, tsx)
           mw == middlewareValue(f)
           fn == Callable(f.file, middlewareExport(f))
           name == middlewareName(f.file)
       IN IF imp # NoError THEN [loader |-> L, error |-> imp, imported |-> <<f.file>>]
          ELSE IF ~mw.truthy \/ mw.type # "function"
          THEN [loader |-> L, error |-> Err("MissingExport", <<f.file>>, <<>>, {}, ""),
                imported |-> <<f.file>>]
          ELSE [loader |->
                  [L EXCEPT !.middlewareCache =
                               IF MapHas(@, name) THEN @ ELSE MapSet(@, name, fn),
                            !.globalMiddlewares =
                               IF isGlobal(f.file)
                               THEN Append(@, [name |-> name, fn |-> fn])
                               ELSE @],
                error |-> NoError, imported |-> <<f.file>>]

\* the body of the for loop of loadMiddlewares for one directory entry;
\* imported lists the files handed to importMiddleware
loadMiddlewareFile(L, f, tsx) ==
  IF f.isDirectory \/ ~isMiddlewareFile(f.file)
  THEN [loader |-> L, error |-> NoError, imported |-> <<>>]
  ELSE LET imp == importMiddleware(f, tsx)
           mw == middlewareValue(f)
           fn == Callable(f.file, middlewareExport(f))
           name == middlewareName(f.file)
       IN IF imp # NoError THEN [loader |-> L, error |-> imp, imported |-> <<f.file>>]
          ELSE IF ~mw.truthy \/ mw.type # "function"
          THEN [loader |-> L, error |-> Err("MissingExport", <<f.file>>, <<>>, {}, ""),
                imported |-> <<f.file>>]
          ELSE [loader |->
                  [L EXCEPT !.middlewareCache = MapSet(@, name, fn),
                            !.globalMiddlewares =
                               IF isGlobal(f.file)
                               THEN Append(@, [name |-> name, fn |-> fn])
                               ELSE @],
                error |-> NoError, imported |-> <<f.file>>]

RECURSIVE loadMiddlewareFiles(_, _, _)
loadMiddlewareFiles(L, files, tsx) ==
  IF files = <<>> THEN [loader |-> L, error |-> NoError, imported |-> <<>>]
  ELSE LET r == loadMiddlewareFile(L, files[1], tsx)
       IN IF r.error # NoError THEN r
          ELSE LET rest == loadMiddlewareFiles(r.loader, Tail(files), tsx)
               IN [rest EXCEPT !.imported = r.imported \o @]

\* mutant: the `if (this.loaded) return` guard is left out
loadMiddlewares_noGuard(L, dirExists, files, tsx) ==
  IF ~dirExists
  THEN [loader |-> [L EXCEPT !.loaded = TRUE], error |-> NoError, imported |-> <<>>]
  ELSE LET r == loadMiddlewareFiles(L, files, tsx)
       IN IF r.error # NoError THEN r
          ELSE [loader |-> [r.loader EXCEPT !.globalMiddlewares = sortGlobals(@),
                                            !.loaded = TRUE],
                error |-> NoError, imported |-> r.imported]

\* loadMiddlewares: dirExists is hasMiddlewaresDir(), files is readdirSync's answer
loadMiddlewares(L, dirExists, files, tsx) ==
  IF L.loaded THEN [loader |-> L, error |-> NoError, imported |-> <<>>]
  ELSE IF ~dirExists
  THEN [loader |-> [L EXCEPT !.loaded = TRUE], error |-> NoError, imported |-> <<>>]
  ELSE LET r == loadMiddlewareFiles(L, files, tsx)
       IN IF r.error # NoError THEN r
          ELSE [loader |-> [r.loader EXCEPT !.globalMiddlewares = sortGlobals(@),
                                            !.loaded = TRUE],
                error |-> NoError, imported |-> r.imported]

\* routeMiddlewares.includes("!_global") and the filter that removes the marker
\* mutant: the marker is honoured in the first position only
skipGlobals_firstOnly(items) == items # <<>> /\ items[1] = SkipMarker

skipGlobals(items) == \E i \in DOMAIN items : items[i] = SkipMarker

RECURSIVE requestedMiddlewares(_)
requestedMiddlewares(items) ==
  IF items = <<>> THEN <<>>
  ELSE IF items[1] # SkipMarker THEN <<items[1]>> \o requestedMiddlewares(Tail(items))
  ELSE requestedMiddlewares(Tail(items))

globalFns(L) == [i \in DOMAIN L.globalMiddlewares |-> L.globalMiddlewares[i].fn]

\* mutant: a name the catalog does not know is skipped instead of thrown
RECURSIVE lookupRequested_skipUnknown(_, _, _)
lookupRequested_skipUnknown(L, names, result) ==
  IF names = <<>> THEN [result |-> result, error |-> NoError]
  ELSE IF ~MapHas(L.middlewareCache, names[1])
  THEN lookupRequested_skipUnknown(L, Tail(names), result)
  ELSE lookupRequested_skipUnknown(L, Tail(names),
                                   Append(result, L.middlewareCache[names[1]]))

\* mutant: a callable already in the chain is not added again
RECURSIVE lookupRequested_dedupe(_, _, _)
lookupRequested_dedupe(L, names, result) ==
  IF names = <<>> THEN [result |-> result, error |-> NoError]
  ELSE IF ~MapHas(L.middlewareCache, names[1])
  THEN [result |-> <<>>,
        error |-> Err("MiddlewareNotFound", <<>>, names[1], DOMAIN L.middlewareCache, "")]
  ELSE lookupRequested_dedupe(L, Tail(names),
         IF L.middlewareCache[names[1]] \in Range(result) THEN result
         ELSE Append(result, L.middlewareCache[names[1]]))

\* the for loop of resolveMiddlewares over the requested names
RECURSIVE lookupRequested(_, _, _)
lookupRequested(L, names, result) ==
  IF names = <<>> THEN [result |-> result, error |-> NoError]
  ELSE IF ~MapHas(L.middlewareCache, names[1])
  THEN [result |-> <<>>,
        error |-> Err("MiddlewareNotFound", <<>>, names[1], DOMAIN L.middlewareCache, "")]
  ELSE lookupRequested(L, Tail(names), Append(result, L.middlewareCache[names[1]]))

\* resolveMiddlewares(routeMiddlewares): the argument is a JavaScript value
resolveMiddlewares(L, routeMiddlewares) ==
  IF ~routeMiddlewares.truthy \/ Len(routeMiddlewares.items) = 0
  THEN [result |-> globalFns(L), error |-> NoError]
  ELSE lookupRequested(L, requestedMiddlewares(routeMiddlewares.items),
                       IF skipGlobals(routeMiddlewares.items) THEN <<>> ELSE globalFns(L))

\* getAvailableMiddlewares
getAvailableMiddlewares(L) ==
  [global |-> [i \in DOMAIN L.globalMiddlewares |-> L.globalMiddlewares[i].name],
   available |-> DOMAIN L.middlewareCache]

(***************************************************************************)
(* State.                                                                  *)
(*   fs        the file system the calls read: the routes directory as the *)
(*             files of its tree in traversal order (each with the folder  *)
(*             names above it and what importing it yields), the           *)
(*             middlewares directory, and whether tsx can be imported      *)
(*   options   { prefix, strict }                                          *)
(*   reg       the registerRoutes call: its position, its MiddlewareLoader,*)
(*             its two registries, what it logged and what it threw        *)
(*             (imports: the files handed to importModule, in order)       *)
(*   ins       the inspectRoutes call, likewise, with the routes it        *)
(*             collects and the report it returns                          *)
(*   app       the host application: the routes handed to app[method]      *)
(*   ml        a MiddlewareLoader used directly                            *)
(*   resolved  the outcome of the last resolveMiddlewares call on ml       *)
(*   invoked   the outcome of the host calling a registered handler         *)
(*   past      the calls made before the current ones, and what they did   *)
(***************************************************************************)
VARIABLES fs, options, reg, ins, app, ml, resolved, invoked, past

vars == <<fs, options, reg, ins, app, ml, resolved, invoked, past>>

JsFunction == JsValue("function", TRUE, FALSE, <<>>)

\* a walker before its call
NewWalk ==
  [pc |-> "idle", loader |-> NewLoader, tsxAvailable |-> FALSE,
   routeRegistry |-> EmptyMap, fileRegistry |-> EmptyMap, pos |-> 1,
   warnings |-> <<>>, imports |-> <<>>, failedAt |-> <<>>, error |-> NoError,
   routes |-> <<>>, report |-> <<>>]

Throw(W, error) == [W EXCEPT !.pc = "failed", !.error = error]

\* the catch block of walk: console.error(`Failed to load route: ...`); throw error
Rethrow(W, fullPath, error) ==
  [W EXCEPT !.pc = "failed", !.error = error, !.failedAt = <<fullPath>>]

(***************************************************************************)
(* registerRoutes.                                                         *)
(***************************************************************************)
\* importModule of registerRoutes
registerImportModule(W, e) ==
  IF extname(e.name) = DotTs
  THEN IF ~W.tsxAvailable
       THEN Err("UnsupportedSourceLanguage", <<Path(e.dir, e.name)>>, <<>>, {}, "")
       ELSE IF e.module.loads THEN NoError
       ELSE Err("ImportFailed", <<Path(e.dir, e.name)>>, <<>>, {}, "")
  ELSE IF e.module.loads THEN NoError
       ELSE Err("ImportFailed", <<Path(e.dir, e.name)>>, <<>>, {}, "")

\* mutant: the fallback handler does nothing instead of throwing
registerHandler_silent(e) ==
  IF e.module.default.truthy THEN Callable(Path(e.dir, e.name), "default")
  ELSE Callable(Path(e.dir, e.name), "handler")

\* handlerModule.default || handlerModule.handler || (() => { throw ... })
registerHandler(e) ==
  IF e.module.default.truthy THEN Callable(Path(e.dir, e.name), "default")
  ELSE IF e.module.handler.truthy THEN Callable(Path(e.dir, e.name), "handler")
  ELSE Callable(Path(e.dir, e.name), "MissingHandler")

\* mutant: the extension check is left out
registerExtensionConflict_never(W, routeSignature, fileExt) == FALSE

\* the extension check of registerRoutes' walk
registerExtensionConflict(W, routeSignature, fileExt) ==
  /\ MapHas(W.fileRegistry, routeSignature)
  /\ extname(W.fileRegistry[routeSignature].name) # <<".">> \o fileExt

\* mutant: the later file takes the fingerprint over
registerDynamicCheck_override(W, fingerprint, fullPath) ==
  IF MapHas(W.routeRegistry, fingerprint)
  THEN [W EXCEPT !.warnings =
          Append(@, [prev |-> W.routeRegistry[fingerprint], file |-> fullPath]),
                 !.routeRegistry = MapSet(@, fingerprint, fullPath)]
  ELSE [W EXCEPT !.routeRegistry = MapSet(@, fingerprint, fullPath)]

\* the dynamic-segment check of registerRoutes' walk: what it does to
\* routeRegistry and to the console in the branches that do not throw
registerDynamicCheck(W, fingerprint, fullPath) ==
  IF MapHas(W.routeRegistry, fingerprint)
  THEN [W EXCEPT !.warnings =
          Append(@, [prev |-> W.routeRegistry[fingerprint], file |-> fullPath])]
  ELSE [W EXCEPT !.routeRegistry = MapSet(@, fingerprint, fullPath)]

RECURSIVE Reverse(_)
Reverse(s) == IF s = <<>> THEN <<>> ELSE Append(Reverse(Tail(s)), s[1])

\* mutant: the middleware chain is spread in the opposite order
hostRegister_reversedChain(A, method, routePath, middlewares, handler, fullPath) ==
  Append(A, [method |-> method, path |-> routePath,
             middlewares |-> middlewares, handler |-> handler, file |-> fullPath,
             args |-> <<routePath>> \o Reverse(middlewares) \o <<handler>>])

\* app[method](routePath, ...middlewares, handler): the host appends the route
\* to its router stack; args is the argument list of the call, the other fields
\* name its parts and the file the route came from
hostRegister(A, method, routePath, middlewares, handler, fullPath) ==
  Append(A, [method |-> method, path |-> routePath,
             middlewares |-> middlewares, handler |-> handler, file |-> fullPath,
             args |-> <<routePath>> \o middlewares \o <<handler>>])

\* mutant: the route is handed to the host before its middlewares are resolved
registerLoad_registerFirst(W, A, e, method, routePath) ==
  LET fullPath == Path(e.dir, e.name)
      imp == registerImportModule(W, e)
      routeMiddlewares == IF e.module.middlewares.truthy
                          THEN e.module.middlewares ELSE JsArray(<<>>)
      res == resolveMiddlewares(W.loader, routeMiddlewares)
      A1 == hostRegister(A, method, routePath, res.result, registerHandler(e), fullPath)
  IN IF imp # NoError THEN [walk |-> Rethrow(W, fullPath, imp), app |-> A]
     ELSE IF ~routeMiddlewares.isArray
     THEN [walk |-> Rethrow(W, fullPath,
                      Err("InvalidMiddlewareDeclaration", <<fullPath>>, <<>>, {},
                          routeMiddlewares.type)),
           app |-> A]
     ELSE IF res.error # NoError THEN [walk |-> Rethrow(W, fullPath, res.error), app |-> A1]
     ELSE [walk |-> W, app |-> A1]

\* the try block of registerRoutes' walk: import, validate, resolve, register
registerLoad(W, A, e, method, routePath) ==
  LET fullPath == Path(e.dir, e.name)
      imp == registerImportModule(W, e)
      routeMiddlewares == IF e.module.middlewares.truthy
                          THEN e.module.middlewares ELSE JsArray(<<>>)
      res == resolveMiddlewares(W.loader, routeMiddlewares)
  IN IF imp # NoError THEN [walk |-> Rethrow(W, fullPath, imp), app |-> A]
     ELSE IF ~routeMiddlewares.isArray
     THEN [walk |-> Rethrow(W, fullPath,
                      Err("InvalidMiddlewareDeclaration", <<fullPath>>, <<>>, {},
                          routeMiddlewares.type)),
           app |-> A]
     ELSE IF res.error # NoError THEN [walk |-> Rethrow(W, fullPath, res.error), app |-> A]
     ELSE [walk |-> W,
           app |-> hostRegister(A, method, routePath, res.result,
                                registerHandler(e), fullPath)]

\* the body of the for loop of registerRoutes' walk for one file
registerWalkItem(W, A, e) ==
  LET fullPath == Path(e.dir, e.name)
      method == methodOf(e.name)
      fileExt == fileExtOf(e.name)
      routePath == routePathOf(options.prefix, prefixPathOf(e.dir))
      routeSignature == method \o Colon \o routePath
      fingerprint == method \o Colon \o normalizeDynamic(routePath)
  IN IF ~methodMatch(e.name) THEN [walk |-> W, app |-> A]
     ELSE IF registerExtensionConflict(W, routeSignature, fileExt)
     THEN [walk |-> Throw(W, Err("ExtensionConflict",
                                 <<W.fileRegistry[routeSignature], fullPath>>,
                                 routePath, {}, "")),
           app |-> A]
     ELSE IF MapHas(W.routeRegistry, fingerprint) /\ options.strict
     THEN [walk |-> Throw(W, Err("DynamicRouteConflict",
                                 <<W.routeRegistry[fingerprint], fullPath>>,
                                 routePath, {}, "")),
           app |-> A]
     ELSE LET W1 == registerDynamicCheck(W, fingerprint, fullPath)
              W2 == [W1 EXCEPT !.fileRegistry = MapSet(@, routeSignature, fullPath)]
              W3 == [W2 EXCEPT !.imports = Append(@, fullPath)]
          IN registerLoad(W3, A, e, method, routePath)

(***************************************************************************)
(* inspectRoutes.                                                          *)
(***************************************************************************)
\* importModule of inspectRoutes
inspectImportModule(W, e) ==
  IF extname(e.name) = DotTs
  THEN IF ~W.tsxAvailable
       THEN Err("UnsupportedSourceLanguage", <<Path(e.dir, e.name)>>, <<>>, {}, "")
       ELSE IF e.module.loads THEN NoError
       ELSE Err("ImportFailed", <<Path(e.dir, e.name)>>, <<>>, {}, "")
  ELSE IF e.module.loads THEN NoError
       ELSE Err("ImportFailed", <<Path(e.dir, e.name)>>, <<>>, {}, "")

\* the extension check of inspectRoutes' walk
inspectExtensionConflict(W, routeSignature, fileExt) ==
  /\ MapHas(W.fileRegistry, routeSignature)
  /\ extname(W.fileRegistry[routeSignature].name) # <<".">> \o fileExt

\* mutant: the conflict is not reported
inspectDynamicCheck_silent(W, fingerprint, fullPath) ==
  IF MapHas(W.routeRegistry, fingerprint) THEN W
  ELSE [W EXCEPT !.routeRegistry = MapSet(@, fingerprint, fullPath)]

\* the dynamic-segment check of inspectRoutes' walk, in the branches that do not throw
inspectDynamicCheck(W, fingerprint, fullPath) ==
  IF MapHas(W.routeRegistry, fingerprint)
  THEN [W EXCEPT !.warnings =
          Append(@, [prev |-> W.routeRegistry[fingerprint], file |-> fullPath])]
  ELSE [W EXCEPT !.routeRegistry = MapSet(@, fingerprint, fullPath)]

\* middlewareNames: the globals (unless skipped), then the declared names
\* mutant: the globals are listed whether or not the skip marker is declared
middlewareNames_globalsAlways(L, items) ==
  [i \in DOMAIN L.globalMiddlewares |->
     [name |-> L.globalMiddlewares[i].name, type |-> "global"]]
  \o LET req == requestedMiddlewares(items)
     IN [i \in DOMAIN req |-> [name |-> req[i], type |-> "route"]]

middlewareNames(L, items) ==
  (IF skipGlobals(items) THEN <<>>
   ELSE [i \in DOMAIN L.globalMiddlewares |->
           [name |-> L.globalMiddlewares[i].name, type |-> "global"]])
  \o LET req == requestedMiddlewares(items)
     IN [i \in DOMAIN req |-> [name |-> req[i], type |-> "route"]]

\* the try block of inspectRoutes' walk: import, validate, resolve, routes.push
inspectLoad(W, e, method, routePath) ==
  LET fullPath == Path(e.dir, e.name)
      imp == inspectImportModule(W, e)
      routeMiddlewares == IF e.module.middlewares.truthy
                          THEN e.module.middlewares ELSE JsArray(<<>>)
      res == resolveMiddlewares(W.loader, routeMiddlewares)
  IN IF imp # NoError THEN Rethrow(W, fullPath, imp)
     ELSE IF ~routeMiddlewares.isArray
     THEN Rethrow(W, fullPath,
                  Err("InvalidMiddlewareDeclaration", <<fullPath>>, <<>>, {}, ""))
     ELSE IF res.error # NoError THEN Rethrow(W, fullPath, res.error)
     ELSE [W EXCEPT !.routes =
             Append(@, [method |-> toUpperCase(method), path |-> routePath,
                        file |-> fullPath,
                        fileType |-> IF fileExtOf(e.name) = <<"t","s">>
                                     THEN "TypeScript" ELSE "JavaScript",
                        middlewares |-> middlewareNames(W.loader, routeMiddlewares.items),
                        handler |-> IF e.module.default.truthy
                                    THEN "default" ELSE "handler"])]

\* the body of the for loop of inspectRoutes' walk for one file
inspectWalkItem(W, e) ==
  LET fullPath == Path(e.dir, e.name)
      method == methodOf(e.name)
      fileExt == fileExtOf(e.name)
      routePath == routePathOf(options.prefix, prefixPathOf(e.dir))
      routeSignature == method \o Colon \o routePath
      fingerprint == method \o Colon \o normalizeDynamic(routePath)
  IN IF ~methodMatch(e.name) THEN W
     ELSE IF inspectExtensionConflict(W, routeSignature, fileExt)
     THEN Throw(W, Err("ExtensionConflict",
                       <<W.fileRegistry[routeSignature], fullPath>>, <<>>, {}, ""))
     ELSE IF MapHas(W.routeRegistry, fingerprint) /\ options.strict
     THEN Throw(W, Err("DynamicRouteConflict",
                       <<W.routeRegistry[fingerprint], fullPath>>, <<>>, {}, ""))
     ELSE LET W1 == inspectDynamicCheck(W, fingerprint, fullPath)
              W2 == [W1 EXCEPT !.fileRegistry = MapSet(@, routeSignature, fullPath)]
              W3 == [W2 EXCEPT !.imports = Append(@, fullPath)]
          IN inspectLoad(W3, e, method, routePath)

\* the comparator of the sort of the returned routes
\* mutant: the methods are ordered alphabetically
methodOrder_alphabetical ==
  <<<<"D","E","L","E","T","E">>, <<"G","E","T">>, <<"P","A","T","C","H">>,
    <<"P","O","S","T">>, <<"P","U","T">>>>

methodOrder == <<<<"G","E","T">>, <<"P","O","S","T">>, <<"P","U","T">>,
                 <<"P","A","T","C","H">>, <<"D","E","L","E","T","E">>>>

methodIndex(m) == CHOOSE i \in DOMAIN methodOrder : methodOrder[i] = m

routeLess(a, b) ==
  IF a.method # b.method THEN methodIndex(a.method) < methodIndex(b.method)
  ELSE localeCompareLess(a.path, b.path)

RECURSIVE routeInsert(_, _)
routeInsert(sorted, x) ==
  IF sorted = <<>> THEN <<x>>
  ELSE IF routeLess(x, sorted[1]) THEN <<x>> \o sorted
  ELSE <<sorted[1]>> \o routeInsert(Tail(sorted), x)

RECURSIVE sortRoutes(_)
sortRoutes(s) ==
  IF s = <<>> THEN <<>>
  ELSE routeInsert(sortRoutes(SubSeq(s, 1, Len(s) - 1)), s[Len(s)])

\* the value inspectRoutes returns
inspectReport(W) ==
  LET info == getAvailableMiddlewares(W.loader)
  IN [routes |-> sortRoutes(W.routes),
      middlewares |-> info,
      summary |->
        [totalRoutes |-> Len(W.routes),
         totalMiddlewares |-> Cardinality(info.available),
         globalMiddlewares |-> Len(info.global),
         byMethod |-> [m \in {W.routes[i].method : i \in DOMAIN W.routes} |->
                         Cardinality({i \in DOMAIN W.routes : W.routes[i].method = m})]]]

(***************************************************************************)
(* The inputs the model draws from.                                        *)
(***************************************************************************)
\* folder names
FolderA == <<"[","a","]">>
FolderB == <<"[","b","]">>
FolderU == <<"u">>

\* file names
GET_js == <<"G","E","T",".","j","s">>
get_js == <<"g","e","t",".","j","s">>
GET_ts == <<"G","E","T",".","t","s">>
POST_js == <<"P","O","S","T",".","j","s">>
POST_ts == <<"P","O","S","T",".","t","s">>
Other_js == <<"x",".","j","s">>
PUT_js == <<"P","U","T",".","j","s">>
PATCH_js == <<"P","A","T","C","H",".","j","s">>
DELETE_js == <<"D","E","L","E","T","E",".","j","s">>

\* middleware names and files
NameC == <<"c">>
NameK == <<"k">>
NameL == <<"l">>
NameZ == <<"z">>

MwFile(file, isDirectory, loads, default, middleware) ==
  [file |-> file, isDirectory |-> isDirectory, loads |-> loads,
   default |-> default, middleware |-> middleware]

MwC == MwFile(<<"c",".","_","g","l","o","b","a","l",".","j","s">>, FALSE, TRUE,
              JsFunction, JsUndefined)
MwL == MwFile(<<"l",".","_","g","l","o","b","a","l",".","j","s">>, FALSE, TRUE,
              JsUndefined, JsFunction)
MwK == MwFile(<<"k",".","j","s">>, FALSE, TRUE, JsFunction, JsUndefined)
MwKGlobalTs == MwFile(<<"k",".","_","g","l","o","b","a","l",".","t","s">>, FALSE, TRUE,
                      JsFunction, JsUndefined)
MwKGlobalJs == MwFile(<<"k",".","_","g","l","o","b","a","l",".","j","s">>, FALSE, TRUE,
                      JsFunction, JsUndefined)
MwNoExport == MwFile(<<"n",".","j","s">>, FALSE, TRUE, JsObject, JsFunction)
MwReadme == MwFile(<<"r",".","m","d">>, FALSE, TRUE, JsUndefined, JsUndefined)

MwBroken == MwFile(<<"b",".","j","s">>, FALSE, FALSE, JsFunction, JsUndefined)

MwCandidates == {MwC, MwL, MwK, MwKGlobalTs, MwNoExport, MwReadme}

\* directories in which two global files yield one name
CollidingDirs ==
  {<<MwKGlobalJs, MwKGlobalTs>>, <<MwKGlobalTs, MwC, MwKGlobalJs>>}

\* the sequences of at most n distinct elements of S
SeqsUpTo(S, n) ==
  UNION {{s \in [1..k -> S] : \A i, j \in 1..k : i # j => s[i] # s[j]} : k \in 0..n}

\* route modules
Module(loads, default, handler, middlewares) ==
  [loads |-> loads, default |-> default, handler |-> handler, middlewares |-> middlewares]

GoodModule == Module(TRUE, JsFunction, JsUndefined, JsUndefined)

Declarations ==
  {JsUndefined, JsArray(<<>>), JsArray(<<NameK>>), JsArray(<<SkipMarker, NameK>>),
   JsArray(<<NameK, NameZ>>), JsString, JsEmptyString, JsNumber, JsZero, JsTrue, JsFalse,
   JsNull, JsObject}

Modules ==
  {Module(TRUE, JsFunction, JsUndefined, d) : d \in Declarations}
  \cup {Module(TRUE, JsUndefined, JsFunction, JsArray(<<NameK>>)),
        Module(TRUE, JsUndefined, JsUndefined, JsUndefined),
        Module(FALSE, JsFunction, JsUndefined, JsUndefined)}

Entry(dir, name, module) == [dir |-> dir, name |-> name, module |-> module]

\* a sequence of files is a traversal order of a tree when no path occurs twice
\* and the files below any one folder are visited in one run
IsPrefix(d, dir) == Len(d) <= Len(dir) /\ SubSeq(dir, 1, Len(d)) = d

IsTraversal(s) ==
  /\ \A i, j \in DOMAIN s :
       i # j => Path(s[i].dir, s[i].name) # Path(s[j].dir, s[j].name)
  /\ \A i, j, k \in DOMAIN s :
       (i < j /\ j < k) =>
         \A n \in 1..Len(s[i].dir) :
           LET d == SubSeq(s[i].dir, 1, n)
           IN IsPrefix(d, s[k].dir) => IsPrefix(d, s[j].dir)

Traversals(candidates) ==
  {s \in UNION {[1..k -> candidates] : k \in 0..MaxFiles} : IsTraversal(s)}

\* the trees that exercise the path rules and the two conflict checks
WalkCandidates ==
  {Entry(<<>>, GET_js, GoodModule),
   Entry(<<FolderA>>, GET_js, GoodModule),
   Entry(<<FolderA>>, get_js, GoodModule),
   Entry(<<FolderA>>, GET_ts, GoodModule),
   Entry(<<FolderB>>, GET_js, GoodModule),
   Entry(<<FolderU, FolderA>>, POST_js, GoodModule),
   Entry(<<FolderU>>, Other_js, GoodModule)}

\* the trees that exercise what a route module may export
ModuleCandidates ==
  {Entry(<<FolderU>>, GET_js, m) : m \in Modules}
  \cup {Entry(<<FolderA>>, POST_ts, GoodModule)}

Prefixes ==
  {<<>>, <<"/">>, <<"/","v">>, <<"/","v","/">>, <<"/","v","/","/">>,
   <<"/","v","/","/","w">>}

StdMiddlewares == <<MwL, MwK, MwC>>

Fs(routesDirExists, entries, mwDirExists, mwFiles, tsx) ==
  [routesDirExists |-> routesDirExists, entries |-> entries,
   mwDirExists |-> mwDirExists, mwFiles |-> mwFiles, tsx |-> tsx]

Options(prefix, strict) == [prefix |-> prefix, strict |-> strict]

(***************************************************************************)
(* Initial states.                                                         *)
(***************************************************************************)
InitCalls ==
  /\ reg = NewWalk
  /\ ins = NewWalk
  /\ app = <<>>
  /\ ml = [loader |-> NewLoader, calls |-> 0, error |-> NoError, imported |-> <<>>]
  /\ resolved = <<>>
  /\ invoked = <<>>
  /\ past = <<>>

InitWalk ==
  /\ fs \in {Fs(TRUE, t, TRUE, StdMiddlewares, TRUE) : t \in Traversals(WalkCandidates)}
  /\ options \in {Options(p, s) : p \in {<<>>, <<"/","v","/">>}, s \in BOOLEAN}

InitModules ==
  /\ fs \in {Fs(TRUE, t, d, StdMiddlewares, x) :
               t \in Traversals(ModuleCandidates), d \in BOOLEAN, x \in BOOLEAN}
  /\ options = Options(<<>>, FALSE)

InitPrefixes ==
  /\ fs \in {Fs(d, t, TRUE, StdMiddlewares, TRUE) :
               d \in BOOLEAN,
               t \in {<<>>, <<Entry(<<>>, GET_js, GoodModule)>>,
                      <<Entry(<<FolderU>>, GET_js, GoodModule)>>}}
  /\ options \in {Options(p, FALSE) : p \in Prefixes}

\* middlewares directories whose load fails or succeeds, under a small tree
CatalogDirs ==
  {<<MwK, MwNoExport, MwC>>, <<MwC, MwBroken>>, <<MwK, MwKGlobalTs>>,
   <<MwKGlobalTs, MwK>>, <<MwReadme, MwC>>}

InitCatalog ==
  /\ fs \in {Fs(TRUE, t, TRUE, m, x) :
               t \in {<<Entry(<<FolderU>>, GET_js, GoodModule)>>,
                      <<Entry(<<FolderA>>, POST_js, GoodModule),
                        Entry(<<FolderU>>, GET_js,
                              Module(TRUE, JsFunction, JsUndefined, JsArray(<<NameK>>)))>>},
               m \in CatalogDirs, x \in BOOLEAN}
  /\ options = Options(<<>>, FALSE)

Init == InitCalls /\ (InitWalk \/ InitModules \/ InitPrefixes \/ InitCatalog)

\* a MiddlewareLoader used directly, on any middlewares directory
DeclaredNames == {NameC, NameK, NameZ, SkipMarker}

DeclaredArgs ==
  {JsUndefined} \cup
  {JsArray(s) : s \in UNION {[1..k -> DeclaredNames] : k \in 0..MaxDeclared}}

InitLoader ==
  /\ InitCalls
  /\ fs \in {Fs(TRUE, <<>>, d, IF d THEN m ELSE <<>>, x) :
               d \in BOOLEAN,
               m \in SeqsUpTo(MwCandidates, MaxMwFiles) \cup CollidingDirs,
               x \in BOOLEAN}
  /\ options = Options(<<>>, FALSE)

(***************************************************************************)
(* Actions.                                                                *)
(***************************************************************************)
\* mutant: the two registries live outside the function and outlast a call
RegisterStart_sharedRegistries ==
  /\ reg.pc = "idle"
  /\ reg' =
       IF ~fs.routesDirExists
       THEN Throw(NewWalk, Err("DirectoryNotFound", <<>>, <<>>, {}, ""))
       ELSE LET r == loadMiddlewares(NewLoader, fs.mwDirExists, fs.mwFiles, fs.tsx)
            IN IF r.error # NoError
               THEN Throw([NewWalk EXCEPT !.loader = r.loader], r.error)
               ELSE [NewWalk EXCEPT !.pc = "walk", !.loader = r.loader,
                                    !.tsxAvailable = fs.tsx,
                                    !.routeRegistry = reg.routeRegistry,
                                    !.fileRegistry = reg.fileRegistry]
  /\ UNCHANGED <<fs, options, ins, app, ml, resolved, invoked, past>>

\* registerRoutes up to the call of walk(baseDir): the call has its own
\* MiddlewareLoader, registries and tsx probe
RegisterStart ==
  /\ reg.pc = "idle"
  /\ reg' =
       IF ~fs.routesDirExists
       THEN Throw(NewWalk, Err("DirectoryNotFound", <<>>, <<>>, {}, ""))
       ELSE LET r == loadMiddlewares(NewLoader, fs.mwDirExists, fs.mwFiles, fs.tsx)
            IN IF r.error # NoError
               THEN Throw([NewWalk EXCEPT !.loader = r.loader], r.error)
               ELSE [NewWalk EXCEPT !.pc = "walk", !.loader = r.loader,
                                    !.tsxAvailable = fs.tsx]
  /\ UNCHANGED <<fs, options, ins, app, ml, resolved, invoked, past>>

\* one iteration of the for loop of registerRoutes' walk
RegisterWalk ==
  /\ reg.pc = "walk"
  /\ reg.pos <= Len(fs.entries)
  /\ LET r == registerWalkItem(reg, app, fs.entries[reg.pos])
     IN /\ reg' = IF r.walk.pc = "failed" THEN r.walk
                  ELSE [r.walk EXCEPT !.pos = @ + 1]
        /\ app' = r.app
  /\ UNCHANGED <<fs, options, ins, ml, resolved, invoked, past>>

\* walk(baseDir) has returned, and so does registerRoutes
RegisterReturn ==
  /\ reg.pc = "walk"
  /\ reg.pos > Len(fs.entries)
  /\ reg' = [reg EXCEPT !.pc = "done"]
  /\ UNCHANGED <<fs, options, ins, app, ml, resolved, invoked, past>>

\* inspectRoutes up to the call of walk(baseDir)
InspectStart ==
  /\ ins.pc = "idle"
  /\ ins' =
       IF ~fs.routesDirExists
       THEN Throw(NewWalk, Err("DirectoryNotFound", <<>>, <<>>, {}, ""))
       ELSE LET r == loadMiddlewares(NewLoader, fs.mwDirExists, fs.mwFiles, fs.tsx)
            IN IF r.error # NoError
               THEN Throw([NewWalk EXCEPT !.loader = r.loader], r.error)
               ELSE [NewWalk EXCEPT !.pc = "walk", !.loader = r.loader,
                                    !.tsxAvailable = fs.tsx]
  /\ UNCHANGED <<fs, options, reg, app, ml, resolved, invoked, past>>

\* one iteration of the for loop of inspectRoutes' walk
InspectWalk ==
  /\ ins.pc = "walk"
  /\ ins.pos <= Len(fs.entries)
  /\ LET w == inspectWalkItem(ins, fs.entries[ins.pos])
     IN ins' = IF w.pc = "failed" THEN w ELSE [w EXCEPT !.pos = @ + 1]
  /\ UNCHANGED <<fs, options, reg, app, ml, resolved, invoked, past>>

\* walk(baseDir) has returned: inspectRoutes sorts, summarises and returns
InspectReturn ==
  /\ ins.pc = "walk"
  /\ ins.pos > Len(fs.entries)
  /\ ins' = [ins EXCEPT !.pc = "done", !.report = <<inspectReport(ins)>>]
  /\ UNCHANGED <<fs, options, reg, app, ml, resolved, invoked, past>>

\* await loader.loadMiddlewares() on the directly used loader
MlLoad ==
  /\ ml.calls < MaxLoadCalls
  /\ LET r == loadMiddlewares(ml.loader, fs.mwDirExists, fs.mwFiles, fs.tsx)
     IN ml' = [loader |-> r.loader, calls |-> ml.calls + 1, error |-> r.error,
               imported |-> ml.imported \o r.imported]
  /\ UNCHANGED <<fs, options, reg, ins, app, resolved, invoked, past>>

\* loader.resolveMiddlewares(arg) on the directly used loader; the call is a pure
\* function of the loader and its argument, so one call per behaviour shows them all
MlResolve ==
  /\ resolved = <<>>
  /\ \E arg \in DeclaredArgs :
       resolved' = <<[arg |-> arg, loader |-> ml.loader,
                      out |-> resolveMiddlewares(ml.loader, arg)]>>
  /\ UNCHANGED <<fs, options, reg, ins, app, ml, invoked, past>>

\* the host dispatches a request to a registered route and calls its handler:
\* the fallback of a module without handler throws `No handler exported in <file>`
Invoke ==
  /\ invoked = <<>>
  /\ \E i \in DOMAIN app :
       invoked' =
         <<[route |-> i,
            error |-> IF app[i].handler.export = "MissingHandler"
                      THEN Err("MissingHandler", <<app[i].handler.file>>, <<>>, {}, "")
                      ELSE NoError]>>
  /\ UNCHANGED <<fs, options, reg, ins, app, ml, resolved, past>>

NextLoader ==
  \/ MlLoad
  \/ MlResolve

SpecLoader == InitLoader /\ [][NextLoader]_vars

Next ==
  \/ RegisterStart
  \/ RegisterWalk
  \/ RegisterReturn
  \/ InspectStart
  \/ InspectWalk
  \/ InspectReturn

Spec == Init /\ [][Next]_vars

\* the calls on trees of every kind of route module, and the host invoking a handler
InitInvoke == InitCalls /\ InitModules

NextInvoke ==
  \/ Next
  \/ Invoke

SpecInvoke == InitInvoke /\ [][NextInvoke]_vars

\* the caller, having awaited its calls, calls registerRoutes(app, ...) and
\* inspectRoutes(...) again, on the same app, with a directory and options of
\* its choice; past keeps what the calls so far did
CallTrees ==
  {<<Entry(<<FolderA>>, GET_js, GoodModule)>>,
   <<Entry(<<FolderB>>, GET_js, GoodModule)>>,
   <<Entry(<<FolderA>>, GET_js, GoodModule), Entry(<<FolderB>>, GET_js, GoodModule)>>}

CallInputs ==
  {[fs |-> Fs(TRUE, t, d, StdMiddlewares, TRUE), options |-> Options(<<>>, s)] :
     t \in CallTrees, d \in BOOLEAN, s \in BOOLEAN}

AppLenBefore == IF past = <<>> THEN 0 ELSE past[Len(past)].to

NewCall ==
  /\ Len(past) < MaxCalls - 1
  /\ reg.pc \in {"idle", "done", "failed"}
  /\ ins.pc \in {"idle", "done", "failed"}
  /\ reg.pc # "idle" \/ ins.pc # "idle"
  /\ past' = Append(past, [fs |-> fs, options |-> options, reg |-> reg, ins |-> ins,
                           from |-> AppLenBefore, to |-> Len(app)])
  /\ reg' = [reg EXCEPT !.pc = "idle"]
  /\ ins' = [ins EXCEPT !.pc = "idle"]
  /\ \E c \in CallInputs : fs' = c.fs /\ options' = c.options
  /\ UNCHANGED <<app, ml, resolved, invoked>>

InitSeveral ==
  /\ InitCalls
  /\ \E c \in CallInputs : fs = c.fs /\ options = c.options

NextSeveral ==
  \/ Next
  \/ NewCall

SpecSeveral == InitSeveral /\ [][NextSeveral]_vars

\* inspectRoutes alone, on trees with all five methods
ReportCandidates ==
  {Entry(<<>>, DELETE_js, GoodModule),
   Entry(<<FolderA>>, GET_js, GoodModule),
   Entry(<<FolderA>>, POST_js, GoodModule),
   Entry(<<FolderU>>, GET_js, GoodModule),
   Entry(<<FolderU>>, PUT_js, GoodModule),
   Entry(<<FolderU>>, PATCH_js, GoodModule)}

InitInspect ==
  /\ InitCalls
  /\ fs \in {Fs(TRUE, t, d, StdMiddlewares, TRUE) :
               t \in Traversals(ReportCandidates), d \in BOOLEAN}
  /\ options = Options(<<>>, FALSE)

NextInspect ==
  \/ InspectStart
  \/ InspectWalk
  \/ InspectReturn

SpecInspect == InitInspect /\ [][NextInspect]_vars

(***************************************************************************)
(* What the properties below speak about, stated on the inputs and not by  *)
(* the operators of the walkers.                                           *)
(***************************************************************************)
\* the names a declaration asks for: its elements other than the skip marker
WithoutMarker(items) == SelectSeq(items, LAMBDA n : n # SkipMarker)
HasMarker(items) == SkipMarker \in Range(items)

\* the declared list of a resolve argument (an omitted list declares nothing)
DeclaredOf(arg) == IF arg.isArray THEN arg.items ELSE <<>>

\* the callables of the global middleware files of the middlewares directory
GlobalCallablesOfFs ==
  {Callable(f.file, IF f.default.truthy THEN "default" ELSE "middleware") :
     f \in {g \in Range(fs.mwFiles) :
              ~g.isDirectory /\ IndexOf(g.file, GlobalInfix) > 0}}

\* a method file: one of the five verbs in any case, a dot, js or ts
MethodFileNames ==
  {m \o <<".">> \o x : m \in MethodNames, x \in {<<"j","s">>, <<"t","s">>}}

IsMethodFile(e) == toLowerCase(e.name) \in MethodFileNames

VerbOf(e) ==
  CHOOSE m \in MethodNames :
    \E x \in {<<"j","s">>, <<"t","s">>} : toLowerCase(e.name) = m \o <<".">> \o x

\* the source language of a method file: js or ts
SourceExt(e) == toLowerCase(SubSeq(e.name, Len(e.name) - 1, Len(e.name)))

\* a parameter folder [x] and the segment it stands for
IsParamFolder(seg) ==
  /\ Len(seg) >= 3
  /\ seg[1] = "[" /\ seg[Len(seg)] = "]"
  /\ \A i \in 2..(Len(seg) - 1) : IsWordChar(seg[i])

ExpectedSegment(seg) ==
  IF IsParamFolder(seg) THEN Colon \o SubSeq(seg, 2, Len(seg) - 1) ELSE seg

RECURSIVE JoinSegments(_)
JoinSegments(segs) ==
  IF segs = <<>> THEN <<>>
  ELSE Slash \o ExpectedSegment(segs[1]) \o JoinSegments(Tail(segs))

\* the prefix as the path rule reads it: trailing slashes stripped, repeated
\* slashes collapsed
ExpectedPrefix == collapseSlashes(normalizedPrefix(options.prefix))

\* the path the derivation rule gives a file, segment by segment
ExpectedPath(e) == ExpectedPrefix \o JoinSegments(e.dir)

\* method and final path; method and the path with every parameter folder
\* replaced by one wildcard
Signature(e) == <<VerbOf(e), ExpectedPath(e)>>

Shape(e) ==
  <<VerbOf(e),
    [i \in DOMAIN e.dir |-> IF IsParamFolder(e.dir[i]) THEN <<"*">> ELSE e.dir[i]]>>

PathOf(e) == Path(e.dir, e.name)
EntryOf(path) == CHOOSE e \in Range(fs.entries) : PathOf(e) = path
MinOf(S) == CHOOSE i \in S : \A j \in S : i <= j
Values(m) == {m[k] : k \in DOMAIN m}

\* the files a walker has visited without throwing
Passed(W) == 1..(W.pos - 1)

\* two method files of one signature written in different source languages
ExtClash(e1, e2) ==
  /\ SourceExt(e1) # SourceExt(e2)
  /\ IsMethodFile(e1) /\ IsMethodFile(e2)
  /\ Signature(e1) = Signature(e2)

EarlierExtClash(W, e) == \E i \in Passed(W) : ExtClash(fs.entries[i], e)

EarlierSameShape(W, e) ==
  {i \in Passed(W) : IsMethodFile(fs.entries[i]) /\ Shape(fs.entries[i]) = Shape(e)}

\* the names a route file declares that the catalog of the walker does not hold
Missing(W, e) ==
  {n \in Range(WithoutMarker(DeclaredOf(e.module.middlewares))) :
     n \notin DOMAIN W.loader.middlewareCache}

\* C1: on a loaded catalog, a declaration without the skip marker (an empty or
\* omitted one included) whose names are all in the catalog resolves to the
\* callables of all global middlewares in name order, followed by the catalog
\* callable of each declared name in the order declared
C1_GlobalsThenDeclared ==
  \A i \in DOMAIN resolved :
    LET L == resolved[i].loader
        out == resolved[i].out
        declared == DeclaredOf(resolved[i].arg)
        n == Len(L.globalMiddlewares)
    IN (/\ L.loaded
        /\ ~HasMarker(declared)
        /\ Range(declared) \subseteq DOMAIN L.middlewareCache)
       => /\ out.error = NoError
          /\ Len(out.result) = n + Len(declared)
          /\ \A g \in 1..n : out.result[g] = L.globalMiddlewares[g].fn
          /\ {out.result[g] : g \in 1..n} = GlobalCallablesOfFs
          /\ \A g, h \in 1..n :
               g < h => ~localeCompareLess(L.globalMiddlewares[h].name,
                                           L.globalMiddlewares[g].name)
          /\ \A d \in DOMAIN declared :
               out.result[n + d] = L.middlewareCache[declared[d]]

\* C1 witness: the directory lists l before c, and [k] resolves to c, l, k
C1_Witness ==
  \E i \in DOMAIN resolved :
    /\ resolved[i].loader.loaded
    /\ fs.mwFiles = <<MwL, MwK, MwC>>
    /\ resolved[i].arg = JsArray(<<NameK>>)
    /\ resolved[i].out.error = NoError
    /\ resolved[i].out.result =
         <<Callable(MwC.file, "default"), Callable(MwL.file, "middleware"),
           Callable(MwK.file, "default")>>

\* C2: a declaration that holds the skip marker anywhere resolves to no global
\* at all: to the catalog callables of its other names, in declared order (to
\* nothing when the marker stands alone), and the marker is never looked up
C2_SkipMarkerDropsGlobals ==
  \A i \in DOMAIN resolved :
    LET L == resolved[i].loader
        out == resolved[i].out
        declared == DeclaredOf(resolved[i].arg)
        rest == WithoutMarker(declared)
    IN HasMarker(declared)
       => /\ out.error.name # SkipMarker
          /\ Range(rest) \subseteq DOMAIN L.middlewareCache
               => /\ out.error = NoError
                  /\ out.result = [d \in DOMAIN rest |-> L.middlewareCache[rest[d]]]

\* C2 witness: with globals loaded, [k, "!_global"] resolves to k alone
C2_Witness ==
  \E i \in DOMAIN resolved :
    /\ resolved[i].loader.loaded
    /\ Len(resolved[i].loader.globalMiddlewares) = 2
    /\ resolved[i].arg = JsArray(<<NameK, SkipMarker>>)
    /\ resolved[i].out.result = <<Callable(MwK.file, "default")>>

\* C3: a route file that declares a name the catalog does not hold makes the call
\* fail with MiddlewareNotFound, naming a missing name and listing the names of
\* the catalog; the walk stops at that file (it is logged as the failing file)
\* and the file is never registered with the host nor reported by inspect
C3_MissingMiddlewareFails ==
  /\ \A W \in {reg, ins} :
       /\ \A i \in Passed(W) :
            IsMethodFile(fs.entries[i]) => Missing(W, fs.entries[i]) = {}
       /\ W.error.kind = "MiddlewareNotFound"
            => /\ W.pc = "failed"
               /\ W.error.name \in Missing(W, fs.entries[W.pos])
               /\ W.error.available = DOMAIN W.loader.middlewareCache
               /\ W.failedAt = <<PathOf(fs.entries[W.pos])>>
  /\ \A i \in DOMAIN app : Missing(reg, EntryOf(app[i].file)) = {}
  /\ \A i \in DOMAIN ins.routes : Missing(ins, EntryOf(ins.routes[i].file)) = {}

\* C3 witness: after one registered route, a file declaring [k, z] fails both
\* calls, the error naming z and listing c, k, l
C3_Witness ==
  /\ reg.pc = "failed" /\ ins.pc = "failed"
  /\ reg.error = Err("MiddlewareNotFound", <<>>, NameZ, {NameC, NameK, NameL}, "")
  /\ ins.error = reg.error
  /\ reg.pos = 2
  /\ Len(app) = 1
  /\ app[1].file # PathOf(fs.entries[2])

\* C4: in strict and non-strict mode alike, a walker never gets past a file
\* whose method and final path were claimed by an earlier file of the other
\* source language: it throws ExtensionConflict at that file (not the dynamic
\* conflict, not a load error), naming both files, before importing it,
\* without a warning and without registering it
C4_ExtensionConflictFatal ==
  \A W \in {reg, ins} :
    /\ \A i \in Passed(W) : \A j \in 1..(i - 1) :
         ~ExtClash(fs.entries[j], fs.entries[i])
    /\ (W.pc = "failed" /\ EarlierExtClash(W, fs.entries[W.pos]))
         => W.error.kind = "ExtensionConflict"
    /\ W.error.kind = "ExtensionConflict"
         => LET e == fs.entries[W.pos]
            IN /\ W.pc = "failed"
               /\ Len(W.error.files) = 2
               /\ W.error.files[2] = PathOf(e)
               /\ \E i \in Passed(W) :
                    /\ W.error.files[1] = PathOf(fs.entries[i])
                    /\ Signature(fs.entries[i]) = Signature(e)
               /\ PathOf(e) \notin Range(W.imports)
               /\ PathOf(e) \notin Values(W.routeRegistry) \cup Values(W.fileRegistry)
               /\ \A k \in DOMAIN W.warnings : W.warnings[k].file # PathOf(e)
               /\ \A k \in DOMAIN app : app[k].file # PathOf(e)
               /\ \A k \in DOMAIN W.routes : W.routes[k].file # PathOf(e)

\* C4 witness: without strict mode, GET.ts is visited after two .js files of the
\* same signature and the register call throws there
C4_Witness ==
  /\ ~options.strict
  /\ reg.pc = "failed"
  /\ reg.error.kind = "ExtensionConflict"
  /\ reg.pos = 3
  /\ fs.entries[3].name = GET_ts
  /\ Len(app) = 2

\* C5: without strict mode, a visited method file whose method and wildcarded
\* path are those of an earlier file (and that is no extension conflict) gets a
\* warning naming the first such file and itself and no conflict error; the
\* fingerprint stays with the first file, the routes registered so far stay in
\* place, and the first route of that shape on the host is the first file's
C5_Step ==
  LET e == fs.entries[reg.pos]
      earlier == EarlierSameShape(reg, e)
      first == fs.entries[MinOf(earlier)]
      same == {i \in DOMAIN app' : Shape(EntryOf(app'[i].file)) = Shape(e)}
  IN (/\ reg.pc = "walk" /\ reg.pos <= Len(fs.entries) /\ reg' # reg
      /\ ~options.strict
      /\ IsMethodFile(e)
      /\ earlier # {}
      /\ ~EarlierExtClash(reg, e))
     => /\ reg'.error.kind \notin {"DynamicRouteConflict", "ExtensionConflict"}
        /\ reg'.warnings =
             Append(reg.warnings, [prev |-> PathOf(first), file |-> PathOf(e)])
        /\ reg'.routeRegistry = reg.routeRegistry
        /\ PathOf(first) \in Values(reg'.routeRegistry)
        /\ PathOf(e) \notin Values(reg'.routeRegistry)
        /\ SubSeq(app', 1, Len(app)) = app
        /\ same # {}
        /\ app'[MinOf(same)].file = PathOf(first)

C5_FirstRouteKept == [][C5_Step]_vars

\* C5 witness: [a]/GET.js then [b]/GET.js without strict mode: one warning, the
\* call completes
C5_Witness ==
  /\ ~options.strict
  /\ reg.pc = "done"
  /\ reg.warnings = <<[prev |-> Path(<<FolderA>>, GET_js),
                       file |-> Path(<<FolderB>>, GET_js)]>>
  /\ Len(app) >= 2
  /\ app[1].file = Path(<<FolderA>>, GET_js)

\* C6: in strict mode, a visited method file whose method and wildcarded path
\* are those of an earlier file (and that is no extension conflict) makes the
\* walk throw DynamicRouteConflict naming both files: it is not imported, not
\* registered, the registries stay as they were, and a failed call takes no
\* further step
C6_Step ==
  LET e == fs.entries[reg.pos]
      earlier == EarlierSameShape(reg, e)
      first == fs.entries[MinOf(earlier)]
  IN /\ (/\ reg.pc = "walk" /\ reg.pos <= Len(fs.entries) /\ reg' # reg
         /\ options.strict
         /\ IsMethodFile(e)
         /\ earlier # {}
         /\ ~EarlierExtClash(reg, e))
        => /\ reg'.pc = "failed"
           /\ reg'.error.kind = "DynamicRouteConflict"
           /\ reg'.error.files = <<PathOf(first), PathOf(e)>>
           /\ reg'.pos = reg.pos
           /\ reg'.imports = reg.imports
           /\ reg'.routeRegistry = reg.routeRegistry
           /\ reg'.fileRegistry = reg.fileRegistry
           /\ app' = app
     /\ reg.pc = "failed" => (reg' = reg /\ app' = app)

C6_StrictConflictStops == [][C6_Step]_vars

\* C6 witness: strict mode, [a]/GET.js registered, [b]/GET.js throws, and the
\* third file of the tree is never reached
C6_Witness ==
  /\ options.strict
  /\ reg.pc = "failed"
  /\ reg.error.kind = "DynamicRouteConflict"
  /\ Len(fs.entries) = 3
  /\ fs.entries[1].dir = <<FolderA>> /\ fs.entries[2].dir = <<FolderB>>
  /\ reg.pos = 2
  /\ Len(app) = 1
  /\ reg.imports = <<PathOf(fs.entries[1])>>

MethodEntries == SelectSeq(fs.entries, IsMethodFile)

C8_RootFileAtPrefixOrSlash ==
  \A i \in DOMAIN app :
    EntryOf(app[i].file).dir = <<>>
      => app[i].path = IF ExpectedPrefix = <<>> THEN <<"/">> ELSE ExpectedPrefix

\* C9: a route file whose middleware declaration is present and not a list is
\* never passed or registered: the walk fails at it with
\* InvalidMiddlewareDeclaration naming the file and the type of the declaration
C9_NonListDeclarationFails ==
  \A W \in {reg, ins} :
    /\ \A i \in Passed(W) :
         IsMethodFile(fs.entries[i])
           => \/ fs.entries[i].module.middlewares.type = "undefined"
              \/ fs.entries[i].module.middlewares.isArray
    /\ W.error.kind = "InvalidMiddlewareDeclaration"
         => /\ W.error.files = <<PathOf(fs.entries[W.pos])>>
            /\ W.error.type = fs.entries[W.pos].module.middlewares.type

Finished(W) == W.pc \in {"done", "failed"}

\* C10: once a register call and an inspect call on the same tree, options and
\* middleware directory have both ended, both succeeded or both failed at the
\* same file with the same kind of error, both logged the same conflict
\* warnings, and on success they hold the same set of (method, path, file)
C10_InspectAgreesWithRegister ==
  (Finished(reg) /\ Finished(ins))
    => /\ reg.pc = ins.pc
       /\ reg.pos = ins.pos
       /\ reg.failedAt = ins.failedAt
       /\ reg.error.kind = ins.error.kind
       /\ reg.warnings = ins.warnings
       /\ reg.pc = "done"
            => {<<toUpperCase(app[i].method), app[i].path, app[i].file>> :
                  i \in DOMAIN app}
               = {<<ins.routes[i].method, ins.routes[i].path, ins.routes[i].file>> :
                    i \in DOMAIN ins.routes}

\* C10 witness: both calls completed on a tree with a dynamic conflict, one
\* warning each, two routes each
C10_Witness ==
  /\ reg.pc = "done" /\ ins.pc = "done"
  /\ Len(reg.warnings) = 1 /\ ins.warnings = reg.warnings
  /\ Len(app) >= 2 /\ Len(ins.routes) = Len(app)

\* the files of the routes the host holds, in the order it received them
AppFiles(A) == [i \in DOMAIN A |-> A[i].file]

\* the method files among the first n files of the tree, in traversal order
MethodFilesBefore(n) ==
  LET m == SelectSeq(SubSeq(fs.entries, 1, n - 1), IsMethodFile)
  IN [i \in DOMAIN m |-> PathOf(m[i])]

\* C11: no step of a register call removes, changes or reorders a route the
\* host already holds; the step at which the call fails registers nothing, the
\* host then holds exactly the method files before the failing file, in
\* traversal order, and a failed call registers nothing more
C11_Step ==
  /\ Len(app') >= Len(app)
  /\ SubSeq(app', 1, Len(app)) = app
  /\ reg.pc = "failed" => app' = app
  /\ (reg.pc # "failed" /\ reg'.pc = "failed")
       => /\ app' = app
          /\ AppFiles(app) = MethodFilesBefore(reg.pos)
          /\ reg'.pos = reg.pos

C11_NoRollback == [][C11_Step]_vars

\* C11 witness: the second of three files throws an extension conflict; the
\* first file's route is on the host and the third file is not
C11_Witness ==
  /\ reg.pc = "failed"
  /\ reg.error.kind = "ExtensionConflict"
  /\ Len(fs.entries) = 3
  /\ reg.pos = 2
  /\ AppFiles(app) = <<PathOf(fs.entries[1])>>
  /\ IsMethodFile(fs.entries[3])

\* the register call failed while loading the middleware catalog
CatalogLoadFailed(W) ==
  /\ W.pc = "failed"
  /\ ~W.loader.loaded
  /\ W.error.kind \in {"MissingExport", "ImportFailed", "UnsupportedSourceLanguage"}

\* C12: a register call that failed while loading the catalog or while looking
\* up a declared middleware name has left no route on the host
C12_NoPartialRegistration ==
  (CatalogLoadFailed(reg) \/ (reg.pc = "failed" /\ reg.error.kind = "MiddlewareNotFound"))
    => app = <<>>

\* a route module with neither a default export nor a named handler export
NoHandler(e) == ~e.module.default.truthy /\ ~e.module.handler.truthy

\* a method file that nothing but its missing handler could stop: it loads,
\* declares no middlewares and conflicts with no earlier file
OnlyHandlerMissing(W, e) ==
  /\ IsMethodFile(e) /\ NoHandler(e)
  /\ e.module.loads /\ SourceExt(e) = <<"j","s">>
  /\ e.module.middlewares.type = "undefined"
  /\ ~EarlierExtClash(W, e)
  /\ ~(options.strict /\ EarlierSameShape(W, e) # {})

\* C13: no call ever fails with MissingHandler, and no call fails at a file
\* whose only defect is the missing handler: register hands its route to the
\* host with the global middlewares as chain and goes on, inspect reports it;
\* the host calling a registered handler gets the MissingHandler error naming
\* the file exactly when the route's module exports no handler
C13_MissingHandlerDeferred ==
  /\ \A W \in {reg, ins} :
       /\ W.error.kind # "MissingHandler"
       /\ (W.pc = "failed" /\ W.pos <= Len(fs.entries) /\ W.loader.loaded)
            => ~OnlyHandlerMissing(W, fs.entries[W.pos])
  /\ \A i \in Passed(reg) :
       (IsMethodFile(fs.entries[i]) /\ NoHandler(fs.entries[i]))
         => \E k \in DOMAIN app :
              /\ app[k].file = PathOf(fs.entries[i])
              /\ Range(app[k].middlewares) = (IF fs.mwDirExists THEN GlobalCallablesOfFs ELSE {})
              /\ Len(app[k].middlewares) = Cardinality(Range(app[k].middlewares))
  /\ \A i \in Passed(ins) :
       (IsMethodFile(fs.entries[i]) /\ NoHandler(fs.entries[i]))
         => \E k \in DOMAIN ins.routes : ins.routes[k].file = PathOf(fs.entries[i])
  /\ invoked # <<>>
       => LET r == app[invoked[1].route]
          IN invoked[1].error =
               IF NoHandler(EntryOf(r.file))
               THEN Err("MissingHandler", <<r.file>>, <<>>, {}, "")
               ELSE NoError

\* C13 witness: u/GET.js exports no handler and is visited first; both calls
\* complete with two routes, and the host calling the first route's handler
\* gets the MissingHandler error
C13_Witness ==
  /\ reg.pc = "done" /\ ins.pc = "done"
  /\ Len(fs.entries) = 2
  /\ NoHandler(fs.entries[1])
  /\ Len(app) = 2 /\ Len(ins.routes) = 2
  /\ app[1].file = PathOf(fs.entries[1])
  /\ invoked # <<>>
  /\ invoked[1].route = 1
  /\ invoked[1].error.kind = "MissingHandler"

\* C14: the files are imported in traversal order and each imported file is
\* registered before the next one is imported: the host's routes are the
\* imported files in the same order, except for a last import that threw; and
\* every route reached the host as the call (path, the chain resolveMiddlewares
\* returned for the file's declaration in that order, handler)
C14_SequentialInOrder ==
  /\ reg.pc # "failed"
       => /\ reg.imports = MethodFilesBefore(reg.pos)
          /\ AppFiles(app) = reg.imports
  /\ reg.pc = "failed"
       => /\ AppFiles(app) = MethodFilesBefore(reg.pos)
          /\ \/ reg.imports = AppFiles(app)
             \/ reg.imports = Append(AppFiles(app), PathOf(fs.entries[reg.pos]))
  /\ \A k \in DOMAIN app :
       LET e == EntryOf(app[k].file)
           chain == resolveMiddlewares(reg.loader,
                      IF e.module.middlewares.truthy
                      THEN e.module.middlewares ELSE JsArray(<<>>)).result
           n == Len(app[k].args)
       IN /\ n = Len(chain) + 2
          /\ app[k].args[1] = app[k].path
          /\ \A j \in DOMAIN chain : app[k].args[1 + j] = chain[j]
          /\ app[k].args[n] =
               Callable(app[k].file,
                        IF e.module.default.truthy THEN "default"
                        ELSE IF e.module.handler.truthy THEN "handler"
                        ELSE "MissingHandler")

\* C14 witness: two routes on the host in traversal order, the second called
\* with the path, the globals c and l, the declared k and the handler
C14_Witness ==
  /\ reg.pc = "done"
  /\ Len(fs.entries) = 2
  /\ AppFiles(app) = <<PathOf(fs.entries[1]), PathOf(fs.entries[2])>>
  /\ reg.imports = AppFiles(app)
  /\ app[2].args = <<app[2].path,
                     Callable(MwC.file, "default"), Callable(MwL.file, "middleware"),
                     Callable(MwK.file, "default"),
                     Callable(app[2].file, "default")>>

\* C15: a load call on a loader whose load has completed changes neither the
\* catalog map nor the global list, imports no file and does not fail; and a
\* load call without a middlewares directory completes without error, with
\* nothing imported, an empty catalog and an empty global list
C15_Step ==
  ml'.calls = ml.calls + 1
    => /\ ml.loader.loaded
            => /\ ml'.loader = ml.loader
               /\ ml'.imported = ml.imported
               /\ ml'.error = NoError
       /\ ~fs.mwDirExists
            => /\ ml'.error = NoError
               /\ ml'.loader.loaded
               /\ ml'.imported = <<>>
               /\ ml'.loader.middlewareCache = EmptyMap
               /\ ml'.loader.globalMiddlewares = <<>>
               /\ getAvailableMiddlewares(ml'.loader) = [global |-> <<>>, available |-> {}]

C15_LoadIdempotent == [][C15_Step]_vars

\* C15 witness: a second load call after a completed load of three files, two
\* of them global: three imports in all
C15_Witness ==
  /\ ml.calls = 2
  /\ ml.loader.loaded
  /\ fs.mwDirExists
  /\ Len(fs.mwFiles) = 3
  /\ ml.imported = [i \in 1..3 |-> fs.mwFiles[i].file]
  /\ Len(ml.loader.globalMiddlewares) = 2

GlobalNames(L) == [i \in DOMAIN L.globalMiddlewares |-> L.globalMiddlewares[i].name]

\* C16: once load has completed, the global list is in name order and no two of
\* its entries have the same name
C16_GlobalsSortedUnique ==
  ml.loader.loaded
    => \A i, j \in DOMAIN ml.loader.globalMiddlewares :
         i < j => /\ ~localeCompareLess(GlobalNames(ml.loader)[j], GlobalNames(ml.loader)[i])
                  /\ GlobalNames(ml.loader)[i] # GlobalNames(ml.loader)[j]

\* the fixed priority of the methods, and the order of two strings character
\* by character
MethodPriority(m) ==
  CHOOSE i \in 1..5 :
    <<"GET", "POST", "PUT", "PATCH", "DELETE">>[i] =
      CASE m = <<"G","E","T">> -> "GET"
        [] m = <<"P","O","S","T">> -> "POST"
        [] m = <<"P","U","T">> -> "PUT"
        [] m = <<"P","A","T","C","H">> -> "PATCH"
        [] m = <<"D","E","L","E","T","E">> -> "DELETE"

RECURSIVE LexLeq(_, _)
LexLeq(a, b) ==
  IF a = <<>> THEN TRUE
  ELSE IF b = <<>> THEN FALSE
  ELSE IF a[1] = b[1] THEN LexLeq(Tail(a), Tail(b))
  ELSE CharRank(a[1]) < CharRank(b[1])

RECURSIVE SumOver(_, _)
SumOver(f, S) ==
  IF S = {} THEN 0
  ELSE LET x == CHOOSE y \in S : TRUE IN f[x] + SumOver(f, S \ {x})

\* C17: the report of a completed inspect call lists the collected routes,
\* ordered by method priority GET, POST, PUT, PATCH, DELETE and by path within
\* a method; totalRoutes is their number, the byMethod counts count the routes
\* of each method and add up to totalRoutes, and totalMiddlewares and
\* globalMiddlewares are the sizes of the report's available and global lists,
\* which are the catalog's
C17_ReportSortedAndCounted ==
  ins.pc = "done"
    => LET r == ins.report[1]
       IN /\ Len(r.routes) = Len(ins.routes)
          /\ Range(r.routes) = Range(ins.routes)
          /\ \A i, j \in DOMAIN r.routes :
               i < j =>
                 \/ MethodPriority(r.routes[i].method) < MethodPriority(r.routes[j].method)
                 \/ /\ r.routes[i].method = r.routes[j].method
                    /\ LexLeq(r.routes[i].path, r.routes[j].path)
          /\ r.summary.totalRoutes = Len(r.routes)
          /\ \A m \in DOMAIN r.summary.byMethod :
               r.summary.byMethod[m] =
                 Cardinality({i \in DOMAIN r.routes : r.routes[i].method = m})
          /\ SumOver(r.summary.byMethod, DOMAIN r.summary.byMethod) = r.summary.totalRoutes
          /\ r.summary.totalMiddlewares = Cardinality(r.middlewares.available)
          /\ r.summary.globalMiddlewares = Len(r.middlewares.global)
          /\ r.middlewares.available = DOMAIN ins.loader.middlewareCache
          /\ r.middlewares.global = GlobalNames(ins.loader)

\* C17 witness: PATCH, PUT and GET routes collected in that order are reported
\* as GET, PUT, PATCH, with three routes, three middlewares, two of them global
C17_Witness ==
  /\ ins.pc = "done"
  /\ [i \in DOMAIN ins.routes |-> ins.routes[i].method]
       = <<<<"P","A","T","C","H">>, <<"P","U","T">>, <<"G","E","T">>>>
  /\ [i \in DOMAIN ins.report[1].routes |-> ins.report[1].routes[i].method]
       = <<<<"G","E","T">>, <<"P","U","T">>, <<"P","A","T","C","H">>>>
  /\ ins.report[1].summary.totalRoutes = 3
  /\ ins.report[1].summary.totalMiddlewares = 3
  /\ ins.report[1].summary.globalMiddlewares = 2

\* the routes the current register call has handed to the host
RoutesOfCall == SubSeq(app, AppLenBefore + 1, Len(app))

\* no two method files of the current tree have the same method and the same
\* path up to parameter names
TreeConflictFree ==
  \A i, j \in DOMAIN fs.entries :
    (i < j /\ IsMethodFile(fs.entries[i]) /\ IsMethodFile(fs.entries[j]))
      => Shape(fs.entries[i]) # Shape(fs.entries[j])

\* C18: a call that has ended did what every earlier call on the same tree,
\* middlewares directory and options did, whatever calls lie between them: the
\* same walk, registries, catalog, warnings and error, and for register the
\* same routes handed to the host; and a call on a tree without conflicts of
\* its own reports no conflict and registers every method file, also when an
\* earlier call on the same app registered the same method and path
C18_CallsIndependent ==
  /\ \A i \in DOMAIN past :
       (past[i].fs = fs /\ past[i].options = options)
         => /\ (Finished(past[i].reg) /\ Finished(reg))
                 => /\ past[i].reg = reg
                    /\ SubSeq(app, past[i].from + 1, past[i].to) = RoutesOfCall
            /\ (Finished(past[i].ins) /\ Finished(ins)) => past[i].ins = ins
  /\ \A W \in {reg, ins} :
       (Finished(W) /\ TreeConflictFree)
         => /\ W.pc = "done"
            /\ W.warnings = <<>>
  /\ (reg.pc = "done" /\ TreeConflictFree)
       => AppFiles(RoutesOfCall) = MethodFilesBefore(Len(fs.entries) + 1)
  /\ (ins.pc = "done" /\ TreeConflictFree)
       => AppFiles(ins.routes) = MethodFilesBefore(Len(fs.entries) + 1)

\* C18 witness: a strict register call on [b]/GET.js completes after a register
\* call on [a]/GET.js on the same app: the host holds get /:a and get /:b
C18_Witness ==
  /\ Len(past) = 1
  /\ past[1].reg.pc = "done"
  /\ past[1].fs.entries = <<Entry(<<FolderA>>, GET_js, GoodModule)>>
  /\ fs.entries = <<Entry(<<FolderB>>, GET_js, GoodModule)>>
  /\ options.strict
  /\ reg.pc = "done"
  /\ reg.warnings = <<>>
  /\ AppFiles(app) = <<Path(<<FolderA>>, GET_js), Path(<<FolderB>>, GET_js)>>

\* the .js and .ts files of the middlewares directory in readdir order, the
\* catalog name of a file (its name up to the first dot) and the callable it
\* exports
LoadableFiles ==
  SelectSeq(fs.mwFiles,
            LAMBDA f : /\ ~f.isDirectory
                       /\ SubSeq(f.file, Len(f.file) - 2, Len(f.file))
                            \in {<<".","j","s">>, <<".","t","s">>})

NameOfFile(file) == SubSeq(file, 1, IndexOf(file, <<".">>) - 1)

ExportOf(f) == Callable(f.file, IF f.default.truthy THEN "default" ELSE "middleware")

AllLoad ==
  \A i \in DOMAIN LoadableFiles :
    LET f == LoadableFiles[i]
    IN /\ f.loads
       /\ (f.file[Len(f.file) - 1] = "t") => fs.tsx
       /\ \/ f.default.type = "function"
          \/ (~f.default.truthy /\ f.middleware.type = "function")

LastWithName(n) ==
  LoadableFiles[CHOOSE i \in DOMAIN LoadableFiles :
                  /\ NameOfFile(LoadableFiles[i].file) = n
                  /\ \A j \in DOMAIN LoadableFiles :
                       NameOfFile(LoadableFiles[j].file) = n => j <= i]

\* C19: a directory all of whose files load gives a completed load without
\* error, also when several files yield one name; the catalog then holds, under
\* every name, the callable of the last file of that name in load order, and
\* resolving a declared name ends with that callable
C19_LastLoadedWins ==
  /\ (ml.calls > 0 /\ AllLoad) => (ml.error = NoError /\ ml.loader.loaded)
  /\ (ml.loader.loaded /\ fs.mwDirExists)
       => /\ DOMAIN ml.loader.middlewareCache
               = {NameOfFile(LoadableFiles[i].file) : i \in DOMAIN LoadableFiles}
          /\ \A n \in DOMAIN ml.loader.middlewareCache :
               ml.loader.middlewareCache[n] = ExportOf(LastWithName(n))
  /\ \A i \in DOMAIN resolved :
       LET declared == DeclaredOf(resolved[i].arg)
           out == resolved[i].out
       IN (/\ resolved[i].loader.loaded /\ fs.mwDirExists
           /\ Len(declared) = 1
           /\ declared[1] \in DOMAIN resolved[i].loader.middlewareCache)
          => /\ out.error = NoError
             /\ out.result[Len(out.result)] = ExportOf(LastWithName(declared[1]))

\* C19 witness: k.js is loaded before k._global.ts; the load completes, the
\* catalog's k is the callable of k._global.ts, and [k] resolves to the global
\* k followed by that same callable
C19_Witness ==
  /\ fs.mwFiles = <<MwK, MwKGlobalTs>>
  /\ ml.loader.loaded /\ ml.error = NoError
  /\ ml.loader.middlewareCache[NameK] = Callable(MwKGlobalTs.file, "default")
  /\ resolved # <<>>
  /\ resolved[1].loader = ml.loader
  /\ resolved[1].arg = JsArray(<<NameK>>)
  /\ resolved[1].out.result =
       <<Callable(MwKGlobalTs.file, "default"), Callable(MwKGlobalTs.file, "default")>>

\* C20: a resolve call leaves the loader (catalog map, global list, loaded
\* flag) as it was, whether it returns or throws; when it returns, the chain has
\* one entry per global (none if the list holds the skip marker) plus one per
\* declared name other than the marker, repeated names and names of globals
\* included
C20_Step ==
  resolved' # resolved
    => /\ ml' = ml
       /\ resolved'[1].loader = ml.loader
       /\ LET declared == DeclaredOf(resolved'[1].arg)
              out == resolved'[1].out
          IN out.error = NoError
               => Len(out.result) =
                    (IF HasMarker(declared) THEN 0 ELSE Len(ml.loader.globalMiddlewares))
                    + Len(WithoutMarker(declared))

C20_NoDedupNoChange == [][C20_Step]_vars

\* C20 witness: with globals c and l, [c, c] resolves to c, l, c, c
C20_Witness ==
  /\ fs.mwFiles = <<MwL, MwK, MwC>>
  /\ ml.loader.loaded
  /\ resolved # <<>>
  /\ resolved[1].loader = ml.loader
  /\ resolved[1].arg = JsArray(<<NameC, NameC>>)
  /\ resolved[1].out.result =
       <<Callable(MwC.file, "default"), Callable(MwL.file, "middleware"),
         Callable(MwC.file, "default"), Callable(MwC.file, "default")>>

\* the declaration of a route file as the walk hands it to resolveMiddlewares
DeclarationOf(e) ==
  IF e.module.middlewares.truthy THEN e.module.middlewares ELSE JsArray(<<>>)

\* C21: for every route inspect has collected, the middleware-name list has
\* the length of the chain resolveMiddlewares returns for the file's
\* declaration; an entry tagged "global" at position p names the p-th global
\* of the sorted list, whose callable is the chain's p-th; an entry tagged
\* "route" names a declared name whose catalog callable is the chain's p-th;
\* the globals come first, and no entry is the skip marker
C21_NamesMatchChain ==
  \A k \in DOMAIN ins.routes :
    LET e == EntryOf(ins.routes[k].file)
        names == ins.routes[k].middlewares
        out == resolveMiddlewares(ins.loader, DeclarationOf(e))
        declared == WithoutMarker(DeclaredOf(DeclarationOf(e)))
        g == Len(names) - Len(declared)
    IN /\ out.error = NoError
       /\ Len(names) = Len(out.result)
       /\ g \in {0, Len(ins.loader.globalMiddlewares)}
       /\ (g = 0) = (HasMarker(DeclaredOf(DeclarationOf(e)))
                      \/ ins.loader.globalMiddlewares = <<>>)
       /\ \A p \in DOMAIN names :
            /\ names[p].name # SkipMarker
            /\ names[p].type = (IF p <= g THEN "global" ELSE "route")
            /\ names[p].type = "global"
                 => /\ names[p].name = ins.loader.globalMiddlewares[p].name
                    /\ out.result[p] = ins.loader.globalMiddlewares[p].fn
                    /\ \A q \in 1..(p - 1) :
                         ~localeCompareLess(names[p].name, names[q].name)
            /\ names[p].type = "route"
                 => /\ names[p].name = declared[p - g]
                    /\ out.result[p] = ins.loader.middlewareCache[names[p].name]

\* C21 witness: inspect has finished and reports a route whose file declares
\* [k]; its list is c and l tagged global followed by k tagged route, and the
\* chain resolveMiddlewares returns for it has the three callables
C21_Witness ==
  /\ ins.pc = "done"
  /\ \E k \in DOMAIN ins.routes :
       /\ DeclarationOf(EntryOf(ins.routes[k].file)) = JsArray(<<NameK>>)
       /\ ins.routes[k].middlewares =
            <<[name |-> NameC, type |-> "global"], [name |-> NameL, type |-> "global"],
              [name |-> NameK, type |-> "route"]>>
       /\ Len(resolveMiddlewares(ins.loader, JsArray(<<NameK>>)).result) = 3

====
